---- MODULE Spec2Model ----
(***************************************************************************)
(* simple-rust-cov: the coverage gate of src/main.rs as a state machine.   *)
(*                                                                         *)
(* main runs five stages in sequence (Runner, Merger, Discoverer,          *)
(* Reporter, Gate).  Every external command is a black box whose exit      *)
(* status and output are chosen by the environment; every panic ends the   *)
(* run.  Text is modelled as sequences of one-character strings, so that   *)
(* contains / starts_with / ends_with / split_whitespace / split('%') are  *)
(* computed on characters as the code computes them.  f32 values are exact *)
(* rationals <<numerator, denominator>> (rounding is not modelled).        *)
(***************************************************************************)
EXTENDS Integers, Sequences, FiniteSets, TLC

VARIABLES
    pc,                  \* position of main: the next call it makes
    project_dir,         \* main.rs:40, a path
    min_line_coverage,   \* main.rs:36
    min_branch_coverage, \* main.rs:37-39
    root,                \* immediate listing of the project root: set of [name, kind]
    profdata_dir,        \* <project_dir>/.profdata as clear_profdata sees it
    profdata_before,     \* history: <<profdata_dir>> as clear_profdata found it
    started,             \* history: the stages started, in order
    failed_stage,        \* history: <<stage>> once a stage has failed
    reset_dir,           \* history: <<absolute path>> clear_profdata reset
    merge_dest,          \* history: <<absolute path>> given to the merge tool with -o
    merge_status,        \* history: <<status>> of the merge command
    merge_inputs,        \* history: names the merge command's glob selected
    deleted,             \* history: names clear_profraw removed
    report_profile,      \* history: <<absolute path>> rust-cov read as -instr-profile
    build_events,        \* history: <<stream>> of build events get_objects read
    objects,             \* main.rs:46
    report_rows,         \* history: <<rows>> of the stdout execute_report read
    line_coverage_str,   \* history: <<token>> of main.rs:185
    branch_coverage_str, \* history: <<token>> of main.rs:186
    report,              \* main.rs:48, <<Report>> once produced
    message,             \* what the Gate printed
    exit_code,           \* <<code>> once the process has ended
    coverage_str,        \* argument of coverage_pct_from_str (function-level check)
    coverage_pct         \* <<result>> of coverage_pct_from_str (function-level check)

vars == <<pc, project_dir, min_line_coverage, min_branch_coverage, root,
          profdata_dir, profdata_before, started, failed_stage, reset_dir, merge_dest,
          merge_status, merge_inputs, deleted, report_profile, build_events,
          objects, report_rows, line_coverage_str, branch_coverage_str,
          report, message, exit_code, coverage_str, coverage_pct>>

(***************************************************************************)
(* Bounds of the model.                                                    *)
(***************************************************************************)
\* fragments one test run can leave in the project root
MaxFragments == 2
\* lines of rust-cov stdout in the reporter-level check
MaxLines == 2
\* build events in the discoverer-level check
MaxEvents == 2
\* characters of a coverage token in the function-level check
TokLen == 4

(***************************************************************************)
(* Text.                                                                   *)
(***************************************************************************)
S_TOTAL == <<"T", "O", "T", "A", "L">>
S_default == <<"d", "e", "f", "a", "u", "l", "t">>
S_default_ == <<"d", "e", "f", "a", "u", "l", "t", "_">>
S_profraw == <<".", "p", "r", "o", "f", "r", "a", "w">>
S_dash == <<"-">>

DigitChars == <<"0", "1", "2", "3", "4", "5", "6", "7", "8", "9">>
Digits == {DigitChars[i] : i \in 1..10}
DigitVal(c) == (CHOOSE i \in 1..10 : DigitChars[i] = c) - 1
Whitespace == {" ", "\t"}

\* str::starts_with
starts_with(s, p) ==
    /\ Len(p) <= Len(s)
    /\ \A i \in 1..Len(p) : s[i] = p[i]

\* str::ends_with
ends_with(s, p) ==
    /\ Len(p) <= Len(s)
    /\ \A i \in 1..Len(p) : s[Len(s) - Len(p) + i] = p[i]

\* str::contains: p occurs at some offset of s
contains(s, p) ==
    \E k \in 0..(Len(s) - Len(p)) : \A i \in 1..Len(p) : s[k + i] = p[i]

\* the least position from i on whose character is (in = TRUE) or is not
\* (in = FALSE) in set C; Len(s) + 1 when there is none
Find(s, i, C, in) ==
    LET hits == {j \in i..Len(s) : (s[j] \in C) = in}
    IN  IF hits = {} THEN Len(s) + 1
        ELSE CHOOSE j \in hits : \A h \in hits : j <= h

\* str::lines: the pieces between "\n", no piece after a final "\n"
RECURSIVE LinesFrom(_, _)
LinesFrom(s, i) ==
    IF i > Len(s) THEN <<>>
    ELSE LET j == Find(s, i, {"\n"}, TRUE)
         IN  <<SubSeq(s, i, j - 1)>> \o LinesFrom(s, j + 1)

lines(s) == LinesFrom(s, 1)

\* str::split_whitespace: the maximal runs of non-whitespace characters
RECURSIVE SplitFrom(_, _)
SplitFrom(s, i) ==
    LET b == Find(s, i, Whitespace, FALSE)
    IN  IF b > Len(s) THEN <<>>
        ELSE LET e == Find(s, b, Whitespace, TRUE)
             IN  <<SubSeq(s, b, e - 1)>> \o SplitFrom(s, e)

split_whitespace(s) == SplitFrom(s, 1)

\* str::split('%').next(): the text before the first '%', all of it without one
RECURSIVE BeforePercent(_, _)
BeforePercent(s, i) ==
    IF i > Len(s) \/ s[i] = "%" THEN SubSeq(s, 1, i - 1)
    ELSE BeforePercent(s, i + 1)

(***************************************************************************)
(* f32 values as exact rationals <<n, d>>, d > 0; d = 0 for the values     *)
(* that are not finite: <<1, 0>> is inf, <<-1, 0>> is -inf, <<0, 0>> NaN.  *)
(***************************************************************************)
NaN == <<0, 0>>
Inf == <<1, 0>>
\* f32 <: false with a NaN on either side
Lt(a, b) ==
    IF a = NaN \/ b = NaN THEN FALSE
    ELSE IF a[2] = 0 \/ b[2] = 0
         THEN (IF a[2] = 0 THEN a[1] ELSE 0) < (IF b[2] = 0 THEN b[1] ELSE 0)
    ELSE a[1] * b[2] < b[1] * a[2]
Eq(a, b) ==
    IF a = NaN \/ b = NaN THEN FALSE
    ELSE IF a[2] = 0 \/ b[2] = 0 THEN a = b
    ELSE a[1] * b[2] = b[1] * a[2]
Leq(a, b) == Lt(a, b) \/ Eq(a, b)
Zero == <<0, 1>>
One == <<1, 1>>
\* main.rs:10-11
DEFAULT_MIN_LINE_COVERAGE == <<1, 1>>
DEFAULT_MIN_BRANCH_COVERAGE == <<1, 1>>

\* Option::unwrap_or, an option being <<>> or <<v>>
unwrap_or(opt, dflt) == IF opt = <<>> THEN dflt ELSE opt[1]

\* str::parse::<f32>: an optional sign, then "inf", "infinity", "nan", or
\* digits with at most one '.' and at least one digit.  (Exponents need the
\* letter e and upper case, which the token alphabets of this model do not
\* hold.)
S_nan == <<"n", "a", "n">>
S_inf == <<"i", "n", "f">>
S_infinity == <<"i", "n", "f", "i", "n", "i", "t", "y">>
RECURSIVE ScanDecimal(_, _, _, _, _, _)
ScanDecimal(s, i, dot, num, den, nd) ==
    IF i > Len(s) THEN [ok |-> nd > 0, val |-> <<num, den>>]
    ELSE IF s[i] \in Digits
         THEN ScanDecimal(s, i + 1, dot, num * 10 + DigitVal(s[i]),
                          IF dot THEN den * 10 ELSE den, nd + 1)
    ELSE IF s[i] = "." /\ ~dot THEN ScanDecimal(s, i + 1, TRUE, num, den, nd)
    ELSE [ok |-> FALSE, val |-> <<num, den>>]

ParseF32(s) ==
    LET signed == Len(s) > 0 /\ s[1] \in {"-", "+"}
        r == ScanDecimal(IF signed THEN Tail(s) ELSE s, 1, FALSE, 0, 1, 0)
        body == IF signed THEN Tail(s) ELSE s
    IN  IF body = S_nan THEN [ok |-> TRUE, val |-> NaN]
        ELSE IF body \in {S_inf, S_infinity}
             THEN [ok |-> TRUE, val |-> IF signed /\ s[1] = "-" THEN <<-1, 0>> ELSE Inf]
        ELSE IF ~r.ok THEN [ok |-> FALSE, val |-> Zero]
        ELSE IF signed /\ s[1] = "-" THEN [ok |-> TRUE, val |-> <<-r.val[1], r.val[2]>>]
        ELSE r

\* mutant of coverage_pct_from_str: the percentage is not divided by 100
coverage_pct_from_str_NoDivide(s) ==
    IF s = S_dash THEN [panic |-> FALSE, val |-> One]
    ELSE LET p == ParseF32(BeforePercent(s, 1))
         IN  IF ~p.ok THEN [panic |-> TRUE, val |-> Zero]
             ELSE [panic |-> FALSE, val |-> p.val]

\* main.rs:206-218
coverage_pct_from_str(s) ==
    IF s = S_dash THEN [panic |-> FALSE, val |-> One]
    ELSE LET p == ParseF32(BeforePercent(s, 1))
         IN  IF ~p.ok THEN [panic |-> TRUE, val |-> Zero]
             ELSE [panic |-> FALSE, val |-> <<p.val[1], p.val[2] * 100>>]

(***************************************************************************)
(* Paths.  A path is [abs, parts]; a resolved path is the sequence of its  *)
(* components from the file-system root.                                   *)
(***************************************************************************)
\* main.rs:13
PROFDATA_DIR == [abs |-> FALSE, parts |-> <<".profdata">>]
\* main.rs:14
PROFDATA_PATH == [abs |-> FALSE, parts |-> <<".profdata", "unittest.profdata">>]
PROFDATA_FILE == "unittest.profdata"

\* the directory the tool is launched in
ProcessCwd == <<"work">>

\* PathBuf::from_iter([a, b]): pushing an absolute path replaces what is there
PathBuf_from_iter(a, b) ==
    IF b.abs THEN b ELSE [abs |-> a.abs, parts |-> a.parts \o b.parts]

RECURSIVE DropDots(_)
DropDots(parts) ==
    IF parts = <<>> THEN <<>>
    ELSE IF Head(parts) = "." THEN DropDots(Tail(parts))
    ELSE <<Head(parts)>> \o DropDots(Tail(parts))

\* what the operating system makes of path p used in working directory cwd
Resolve(cwd, p) == DropDots(IF p.abs THEN p.parts ELSE cwd \o p.parts)

\* Command::current_dir(project_dir): the child's working directory
ChildCwd(pd) == Resolve(ProcessCwd, pd)

\* main.rs:96: the directory clear_profdata removes and recreates
clear_profdata_target(pd) == Resolve(ProcessCwd, PathBuf_from_iter(pd, PROFDATA_DIR))

\* main.rs:82-88: the -o argument, read by a child running in project_dir
merge_output_path(pd) == Resolve(ChildCwd(pd), PathBuf_from_iter(pd, PROFDATA_PATH))

\* main.rs:163-164,171: the -instr-profile argument, read by a child running in project_dir
report_profile_path(pd) == Resolve(ChildCwd(pd), PROFDATA_PATH)

(***************************************************************************)
(* Artifact store.                                                         *)
(***************************************************************************)
AbsentDir == [kind |-> "absent", entries |-> {}]
EmptyDir == [kind |-> "dir", entries |-> {}]

\* mutant of clear_profdata: an existing directory is kept as it is
clear_profdata_KeepExisting(dir, io) ==
    IF io = "exists_err" THEN [panic |-> TRUE, dir |-> dir]
    ELSE IF dir.kind # "absent" THEN [panic |-> dir.kind = "file", dir |-> dir]
    ELSE IF io = "create_err" THEN [panic |-> TRUE, dir |-> AbsentDir]
    ELSE [panic |-> FALSE, dir |-> EmptyDir]

\* main.rs:95-101.  io is what the file system answers: every call succeeds
\* ("ok") or the named call fails.  remove_dir_all of a path that is not a
\* directory is an error.
clear_profdata(dir, io) ==
    IF io = "exists_err" THEN [panic |-> TRUE, dir |-> dir]
    ELSE IF dir.kind # "absent" /\ (io = "remove_err" \/ dir.kind = "file")
         THEN [panic |-> TRUE, dir |-> dir]
    ELSE IF io = "create_err" THEN [panic |-> TRUE, dir |-> AbsentDir]
    ELSE [panic |-> FALSE, dir |-> EmptyDir]

\* main.rs:83: the shell's expansion of default_*.profraw
MergeGlob(name) ==
    /\ Len(name) >= Len(S_default_) + Len(S_profraw)
    /\ starts_with(name, S_default_)
    /\ ends_with(name, S_profraw)

merge_glob_selection(listing) == {e.name : e \in {x \in listing : MergeGlob(x.name)}}

\* mutant of IsFragmentName: the prefix of the merge command's glob
IsFragmentName_Underscore(name) ==
    starts_with(name, S_default_) /\ ends_with(name, S_profraw)

\* main.rs:112
IsFragmentName(name) ==
    starts_with(name, S_default) /\ ends_with(name, S_profraw)

\* main.rs:106-119: the entries clear_profraw removes
clear_profraw_targets(listing) ==
    {e \in listing : e.kind = "file" /\ IsFragmentName(e.name)}

\* mutant of panic_on_fail: a failed command is let through
panic_on_fail_Never(status) == FALSE

\* main.rs:220-229
panic_on_fail(status) == status # "ok"

(***************************************************************************)
(* Binary discovery.  A JSON value is [t, s, kids]: its type, its scalar   *)
(* text, and its members [k, v] (k = "" for the items of an array).        *)
(***************************************************************************)
JNull == [t |-> "null", s |-> "", kids |-> <<>>]
JBool(b) == [t |-> "bool", s |-> IF b THEN "true" ELSE "false", kids |-> <<>>]
JStr(x) == [t |-> "str", s |-> x, kids |-> <<>>]
JNum(x) == [t |-> "num", s |-> x, kids |-> <<>>]
JArr(items) ==
    [t |-> "arr", s |-> "", kids |-> [i \in 1..Len(items) |-> [k |-> "", v |-> items[i]]]]
JObj(members) == [t |-> "obj", s |-> "", kids |-> members]

\* serde_json: value[key] is the member of an object, Null for anything else
Index(v, key) ==
    IF v.t = "obj" /\ \E i \in 1..Len(v.kids) : v.kids[i].k = key
    THEN v.kids[CHOOSE i \in 1..Len(v.kids) :
                    /\ v.kids[i].k = key
                    /\ \A j \in (i + 1)..Len(v.kids) : v.kids[j].k # key].v
    ELSE JNull

as_bool(v) == IF v.t = "bool" THEN <<v.s = "true">> ELSE <<>>
as_array(v) == IF v.t = "arr" THEN <<[i \in 1..Len(v.kids) |-> v.kids[i].v]>> ELSE <<>>
as_str(v) == IF v.t = "str" THEN <<v.s>> ELSE <<>>

\* mutant of IsTestTarget: any boolean profile.test counts
IsTestTarget_AnyBool(target) ==
    as_bool(Index(Index(target, "profile"), "test")) # <<>>

\* main.rs:138-139
IsTestTarget(target) ==
    LET test == as_bool(Index(Index(target, "profile"), "test"))
    IN  test # <<>> /\ test[1]

\* main.rs:135-154.  A line is [json |-> <<value>>], or [json |-> <<>>] when
\* serde_json::from_str rejects it.
RECURSIVE ObjectsFrom(_, _, _)
ObjectsFrom(ls, i, acc) ==
    IF i > Len(ls) THEN [panic |-> FALSE, objects |-> acc]
    ELSE IF ls[i].json = <<>> THEN [panic |-> TRUE, objects |-> <<>>]
    ELSE LET target == ls[i].json[1]
         IN  IF IsTestTarget(target)
             THEN LET object_paths == as_array(Index(target, "filenames"))
                  IN  IF object_paths = <<>> THEN [panic |-> TRUE, objects |-> <<>>]
                      ELSE IF \E j \in 1..Len(object_paths[1]) :
                                  as_str(object_paths[1][j]) = <<>>
                           THEN [panic |-> TRUE, objects |-> <<>>]
                      ELSE ObjectsFrom(ls, i + 1,
                               acc \o [j \in 1..Len(object_paths[1]) |->
                                          as_str(object_paths[1][j])[1]])
             ELSE ObjectsFrom(ls, i + 1, acc)

parse_objects(ls) == ObjectsFrom(ls, 1, <<>>)

(***************************************************************************)
(* Coverage report.                                                        *)
(***************************************************************************)
\* main.rs:194-204: the first line that contains "TOTAL"
RECURSIVE FirstContaining(_, _, _)
FirstContaining(ls, i, pat) ==
    IF i > Len(ls) THEN [found |-> FALSE, line |-> <<>>]
    ELSE IF contains(ls[i], pat) THEN [found |-> TRUE, line |-> ls[i]]
    ELSE FirstContaining(ls, i + 1, pat)

find_coverage_line(stdout) == FirstContaining(lines(stdout), 1, S_TOTAL)

NoReport == [panic |-> TRUE, line_str |-> <<>>, branch_str |-> <<>>, report |-> <<>>]

\* main.rs:183-191: indexing past the end of coverage_line_parts panics
parse_report(stdout) ==
    LET coverage_line == find_coverage_line(stdout)
    IN  IF ~coverage_line.found THEN NoReport
        ELSE LET coverage_line_parts == split_whitespace(coverage_line.line)
             IN  IF Len(coverage_line_parts) < 7 THEN NoReport
                 ELSE IF Len(coverage_line_parts) < 10
                      THEN [NoReport EXCEPT !.line_str = <<coverage_line_parts[7]>>]
                 ELSE LET l == coverage_pct_from_str(coverage_line_parts[7])
                          b == coverage_pct_from_str(coverage_line_parts[10])
                      IN  [panic |-> l.panic \/ b.panic,
                           line_str |-> <<coverage_line_parts[7]>>,
                           branch_str |-> <<coverage_line_parts[10]>>,
                           report |-> IF l.panic \/ b.panic THEN <<>>
                                      ELSE <<[line_coverage |-> l.val,
                                              branch_coverage |-> b.val]>>]

(***************************************************************************)
(* Gate.                                                                   *)
(***************************************************************************)
\* mutant of gate: the branch check is skipped
gate_LineOnly(rep, min_line, min_branch) ==
    IF Lt(rep.line_coverage, min_line)
    THEN [exit |-> 1, stream |-> "stderr", text |-> "Line coverage requirement not met",
          values |-> <<rep.line_coverage, min_line>>]
    ELSE [exit |-> 0, stream |-> "stdout",
          text |-> "SUCCESS - All coverage requirements met", values |-> <<>>]

\* main.rs:50-64: the exit code and what is printed
gate(rep, min_line, min_branch) ==
    IF Lt(rep.line_coverage, min_line)
    THEN [exit |-> 1, stream |-> "stderr", text |-> "Line coverage requirement not met",
          values |-> <<rep.line_coverage, min_line>>]
    ELSE IF Lt(rep.branch_coverage, min_branch)
    THEN [exit |-> 1, stream |-> "stderr", text |-> "Branch coverage requirement not met",
          values |-> <<rep.line_coverage, min_line>>]
    ELSE [exit |-> 0, stream |-> "stdout",
          text |-> "SUCCESS - All coverage requirements met", values |-> <<>>]

(***************************************************************************)
(* The environment: what the file system and the external commands can     *)
(* hand to the program.                                                    *)
(***************************************************************************)
\* Command::output() fails to spawn, or the child exits non-zero, or exits 0
CmdResults == {"spawn_err", "nonzero", "ok"}

Dot == [abs |-> FALSE, parts |-> <<".">>]
ProjectDirs ==
    {Dot, [abs |-> FALSE, parts |-> <<"proj">>], [abs |-> TRUE, parts |-> <<"abs", "proj">>]}

\* --min-line-coverage / --min-branch-coverage as given (<<>>: not given)
MinLineArgs == {<<>>, <<<<95, 100>>>>, <<<<98, 100>>>>}
MinBranchArgs == {<<>>, <<<<90, 100>>>>}

\* the fragment the i-th test process writes: default_<i>.profraw
FragName(i) == S_default_ \o <<DigitChars[i + 1]>> \o S_profraw
FragmentFiles == {[name |-> FragName(i), kind |-> "file"] : i \in 1..MaxFragments}

\* what may lie in the project root before the run
N_default_profraw == <<"d", "e", "f", "a", "u", "l", "t", ".", "p", "r", "o", "f", "r", "a", "w">>
N_default_9_profraw == <<"d", "e", "f", "a", "u", "l", "t", "_", "9", ".", "p", "r", "o", "f", "r", "a", "w">>
N_default_d_profraw == <<"d", "e", "f", "a", "u", "l", "t", "_", "d", ".", "p", "r", "o", "f", "r", "a", "w">>
N_my_profraw == <<"m", "y", ".", "p", "r", "o", "f", "r", "a", "w">>
OptionalEntries ==
    {[name |-> N_default_profraw, kind |-> "file"],
     [name |-> N_default_9_profraw, kind |-> "file"],
     [name |-> N_default_d_profraw, kind |-> "dir"]}
AlwaysEntries == {[name |-> N_my_profraw, kind |-> "file"]}

\* what <project_dir>/.profdata may be before the run
ProfdataStates ==
    {AbsentDir, EmptyDir,
     [kind |-> "dir", entries |-> {PROFDATA_FILE}],
     [kind |-> "dir", entries |-> {PROFDATA_FILE, "notes.txt"}],
     [kind |-> "file", entries |-> {}]}

\* Build events, described by what their profile and filenames members are.
ProfileKinds == {"absent", "string", "notest", "true", "false", "str_true"}
FilenamesKinds == {"absent", "string", "a", "b", "ab", "a_num"}
MalformedEvent == [profile |-> "malformed", filenames |-> "absent"]
Events ==
    {[profile |-> p, filenames |-> f] : p \in ProfileKinds, f \in FilenamesKinds}
        \cup {MalformedEvent}

FilenamesPaths(f) ==
    CASE f = "a" -> <<"/tmp/bin_a">>
      [] f = "b" -> <<"/tmp/bin_b">>
      [] f = "ab" -> <<"/tmp/bin_a", "/tmp/bin_b">>
      [] OTHER -> <<>>

ProfileMember(p) ==
    CASE p = "absent" -> <<>>
      [] p = "string" -> <<[k |-> "profile", v |-> JStr("dev")]>>
      [] p = "notest" -> <<[k |-> "profile", v |-> JObj(<<[k |-> "opt_level", v |-> JStr("0")]>>)]>>
      [] p = "true" -> <<[k |-> "profile", v |-> JObj(<<[k |-> "test", v |-> JBool(TRUE)]>>)]>>
      [] p = "false" -> <<[k |-> "profile", v |-> JObj(<<[k |-> "test", v |-> JBool(FALSE)]>>)]>>
      [] p = "str_true" -> <<[k |-> "profile", v |-> JObj(<<[k |-> "test", v |-> JStr("true")]>>)]>>

FilenamesMember(f) ==
    CASE f = "absent" -> <<>>
      [] f = "string" -> <<[k |-> "filenames", v |-> JStr("/tmp/bin_a")]>>
      [] f = "a_num" -> <<[k |-> "filenames", v |-> JArr(<<JStr("/tmp/bin_a"), JNum("1")>>)]>>
      [] OTHER -> <<[k |-> "filenames",
                     v |-> JArr([i \in 1..Len(FilenamesPaths(f)) |-> JStr(FilenamesPaths(f)[i])])]>>

\* the line of cargo's stdout an event is, as serde_json::from_str returns it
EventLine(e) ==
    IF e = MalformedEvent THEN [json |-> <<>>]
    ELSE [json |-> <<JObj(<<[k |-> "reason", v |-> JStr("compiler-artifact")]>>
                           \o ProfileMember(e.profile) \o FilenamesMember(e.filenames))>>]

EventLines(evs) == [i \in 1..Len(evs) |-> EventLine(evs[i])]

SeqsUpTo(S, n) == UNION {[1..k -> S] : k \in 0..n}

\* the streams of the discoverer-level check
Streams == SeqsUpTo(Events, MaxEvents)

\* the streams of the pipeline
SampleStreams ==
    {<<[profile |-> "true", filenames |-> "a"], [profile |-> "false", filenames |-> "b"]>>,
     <<[profile |-> "notest", filenames |-> "absent"], [profile |-> "true", filenames |-> "ab"]>>,
     <<[profile |-> "true", filenames |-> "a_num"]>>,
     <<MalformedEvent>>}

\* Rows of rust-cov's table: the fields, the white space before the first
\* and between two of them.
W_96 == <<"9", "6", ".", "0", "0", "%">>
W_9667 == <<"9", "6", ".", "6", "7", "%">>
W_50 == <<"5", "0", ".", "0", "0", "%">>
W_100 == <<"1", "0", "0", ".", "0", "0", "%">>
W_na == <<"n", "/", "a">>
W_file == <<"s", "r", "c", "/", "a", ".", "r", "s">>
W_file_TOTAL == <<"x", "T", "O", "T", "A", "L", "x", ".", "r", "s">>
W_Filename == <<"F", "i", "l", "e", "n", "a", "m", "e">>
W_big == <<"1", "0", "0">>
WordsWithTotal == {S_TOTAL, W_file_TOTAL}

TableRow(name, fill, l, b) ==
    <<name, fill, <<"0">>, W_100, fill, <<"2">>, l, fill, <<"1">>, b>>

Layouts == {[lead |-> <<>>, sep |-> <<" ">>], [lead |-> <<" ">>, sep |-> <<" ", "\t", " ">>]}

Rows ==
    {[fields |-> TableRow(S_TOTAL, f, l, b), lead |-> y.lead, sep |-> y.sep] :
        f \in {W_big, <<"7">>}, l \in {W_96, S_dash}, b \in {W_9667, W_50}, y \in Layouts}
    \cup {[fields |-> TableRow(n, <<"7">>, W_50, S_dash), lead |-> <<>>, sep |-> <<" ">>] :
            n \in {W_file, W_file_TOTAL}}
    \cup {[fields |-> f, lead |-> <<>>, sep |-> <<" ">>] :
            f \in {<<W_Filename, <<"7">>, W_100>>,
                   TableRow(S_TOTAL, <<"7">>, W_na, W_50)}}

RECURSIVE RenderFields(_, _)
RenderFields(fields, sep) ==
    IF fields = <<>> THEN <<>>
    ELSE IF Len(fields) = 1 THEN fields[1]
    ELSE fields[1] \o sep \o RenderFields(Tail(fields), sep)

RECURSIVE RenderStdout(_)
RenderStdout(rows) ==
    IF rows = <<>> THEN <<>>
    ELSE Head(rows).lead \o RenderFields(Head(rows).fields, Head(rows).sep) \o <<"\n">>
             \o RenderStdout(Tail(rows))

\* the outputs of the reporter-level check
Stdouts == SeqsUpTo(Rows, MaxLines)

\* the outputs of the pipeline
PlainRow(fields) == [fields |-> fields, lead |-> <<>>, sep |-> <<" ">>]
SampleStdouts ==
    {<<PlainRow(<<W_Filename, <<"7">>, W_100>>),
       PlainRow(TableRow(W_file, <<"7">>, W_50, S_dash)),
       PlainRow(<<S_TOTAL, W_big, <<"0">>, W_100, <<"5", "0">>, <<"2">>, W_96,
                  <<"3", "0">>, <<"1">>, W_9667>>)>>,
     <<PlainRow(TableRow(S_TOTAL, <<"7">>, S_dash, W_50))>>,
     <<PlainRow(TableRow(S_TOTAL, <<"7">>, W_50, S_dash))>>,
     <<PlainRow(SubSeq(TableRow(S_TOTAL, <<"7">>, W_96, W_50), 1, 7))>>,
     <<PlainRow(<<W_Filename, <<"7">>, W_100>>)>>}

\* the tokens of the function-level check
TokAlphabet == {"-", "%", ".", "0", "1", "5", "n", "a"}
Tokens == UNION {[1..k -> TokAlphabet] : k \in 1..TokLen}

(***************************************************************************)
(* The program.  Each action is one call of main, with the external        *)
(* command it waits for; generate_profdata is its three calls in turn.     *)
(***************************************************************************)
\* how a call ends: a panic ends the process (Rust's exit code 101)
Finish(stage, failed, panics, next) ==
    /\ failed_stage' = IF failed THEN <<stage>> ELSE failed_stage
    /\ pc' = IF panics THEN "panicked" ELSE next
    /\ exit_code' = IF panics THEN <<101>> ELSE exit_code

\* main.rs:34-40: the state as main reaches its first call
Init ==
    /\ pc = "run_test"
    /\ project_dir \in ProjectDirs
    /\ min_line_coverage \in {unwrap_or(a, DEFAULT_MIN_LINE_COVERAGE) : a \in MinLineArgs}
    /\ min_branch_coverage \in {unwrap_or(a, DEFAULT_MIN_BRANCH_COVERAGE) : a \in MinBranchArgs}
    /\ root \in {AlwaysEntries \cup x : x \in SUBSET OptionalEntries}
    /\ profdata_dir \in ProfdataStates
    /\ profdata_before = <<>>
    /\ started = <<>>
    /\ failed_stage = <<>>
    /\ reset_dir = <<>>
    /\ merge_dest = <<>>
    /\ merge_status = <<>>
    /\ merge_inputs = {}
    /\ deleted = {}
    /\ report_profile = <<>>
    /\ build_events = <<>>
    /\ objects = <<>>
    /\ report_rows = <<>>
    /\ line_coverage_str = <<>>
    /\ branch_coverage_str = <<>>
    /\ report = <<>>
    /\ message = <<>>
    /\ exit_code = <<>>
    /\ coverage_str = <<>>
    /\ coverage_pct = <<>>

\* main.rs:42, 67-76: cargo test; every test process that ran left a fragment
RunTest ==
    /\ pc = "run_test"
    /\ started' = Append(started, "Runner")
    /\ \E st \in CmdResults, frs \in SUBSET FragmentFiles :
          /\ root' = IF st = "spawn_err" THEN root ELSE root \cup frs
          /\ Finish("Runner", st # "ok", st = "spawn_err" \/ panic_on_fail(st),
                    "clear_profdata")
    /\ UNCHANGED <<project_dir, min_line_coverage, min_branch_coverage, profdata_dir, profdata_before,
                   reset_dir, merge_dest, merge_status, merge_inputs, deleted,
                   report_profile, build_events, objects, report_rows,
                   line_coverage_str, branch_coverage_str, report, message,
                   coverage_str, coverage_pct>>

\* main.rs:44, 79, 95-101
ClearProfdata ==
    /\ pc = "clear_profdata"
    /\ started' = Append(started, "Merger")
    /\ reset_dir' = <<clear_profdata_target(project_dir)>>
    /\ profdata_before' = <<profdata_dir>>
    /\ \E io \in {"ok", "exists_err", "remove_err", "create_err"} :
          LET r == clear_profdata(profdata_dir, io)
          IN  /\ profdata_dir' = r.dir
              /\ Finish("Merger", r.panic, r.panic, "merge")
    /\ UNCHANGED <<project_dir, min_line_coverage, min_branch_coverage, root,
                   merge_dest, merge_status, merge_inputs, deleted,
                   report_profile, build_events, objects, report_rows,
                   line_coverage_str, branch_coverage_str, report, message,
                   coverage_str, coverage_pct>>

\* main.rs:80-91: sh -c "rust-profdata merge -sparse default_*.profraw -o <path>"
\* run in project_dir.  With no file for the glob the shell passes the pattern
\* itself and the tool fails; a successful tool has written its -o file.
Merge ==
    /\ pc = "merge"
    /\ \E st \in CmdResults :
          /\ merge_dest' = IF st = "spawn_err" THEN <<>> ELSE <<merge_output_path(project_dir)>>
          /\ st = "ok" => merge_glob_selection(root) # {}
          /\ merge_status' = <<st>>
          /\ merge_inputs' = IF st = "spawn_err" THEN {} ELSE merge_glob_selection(root)
          /\ profdata_dir' =
                IF /\ st = "ok"
                   /\ merge_output_path(project_dir)
                        = clear_profdata_target(project_dir) \o <<PROFDATA_FILE>>
                THEN [profdata_dir EXCEPT !.entries = @ \cup {PROFDATA_FILE}]
                ELSE profdata_dir
          /\ Finish("Merger", st # "ok", st = "spawn_err" \/ panic_on_fail(st),
                    "clear_profraw")
    /\ UNCHANGED <<project_dir, min_line_coverage, min_branch_coverage, root, profdata_before,
                   started, reset_dir, deleted, report_profile, build_events,
                   objects, report_rows, line_coverage_str, branch_coverage_str,
                   report, message, coverage_str, coverage_pct>>

\* main.rs:92, 103-120: read_dir fails, or a remove_file fails after some
\* files are gone, or every target is removed
ClearProfraw ==
    /\ pc = "clear_profraw"
    /\ \E io \in {"ok", "read_err", "remove_err"},
          gone \in SUBSET clear_profraw_targets(root) :
          /\ io = "ok" => gone = clear_profraw_targets(root)
          /\ io = "read_err" => gone = {}
          /\ io = "remove_err" => gone # clear_profraw_targets(root)
          /\ root' = root \ gone
          /\ deleted' = {e.name : e \in gone}
          /\ Finish("Merger", io # "ok", io # "ok", "get_objects")
    /\ UNCHANGED <<project_dir, min_line_coverage, min_branch_coverage, profdata_dir, profdata_before,
                   started, reset_dir, merge_dest, merge_status, merge_inputs,
                   report_profile, build_events, objects, report_rows,
                   line_coverage_str, branch_coverage_str, report, message,
                   coverage_str, coverage_pct>>

\* main.rs:46, 122-155: cargo test --no-run --message-format=json, whose
\* stdout is one of S
GetObjects(S) ==
    /\ pc = "get_objects"
    /\ started' = Append(started, "Discoverer")
    /\ \E st \in CmdResults, evs \in S :
          LET stops == st = "spawn_err" \/ panic_on_fail(st)
              r == parse_objects(EventLines(evs))
          IN  /\ build_events' = IF stops THEN <<>> ELSE <<evs>>
              /\ objects' = IF stops \/ r.panic THEN <<>> ELSE r.objects
              /\ Finish("Discoverer", st # "ok" \/ r.panic, stops \/ r.panic,
                        "execute_report")
    /\ UNCHANGED <<project_dir, min_line_coverage, min_branch_coverage, root,
                   profdata_dir, profdata_before, reset_dir, merge_dest, merge_status, merge_inputs,
                   deleted, report_profile, report_rows, line_coverage_str,
                   branch_coverage_str, report, message, coverage_str, coverage_pct>>

\* main.rs:48, 157-192: rust-cov report run in project_dir, whose stdout is the
\* rendering of one of S.  The tool fails when its -instr-profile file is not
\* there, that is unless this run's merge wrote it.
ExecuteReport(S) ==
    /\ pc = "execute_report"
    /\ started' = Append(started, "Reporter")
    /\ \E st \in CmdResults, rows \in S :
          LET stops == st = "spawn_err" \/ panic_on_fail(st)
              r == parse_report(RenderStdout(rows))
          IN  /\ report_profile' = IF st = "spawn_err" THEN <<>>
                                   ELSE <<report_profile_path(project_dir)>>
              /\ st = "ok" => /\ merge_status = <<"ok">>
                              /\ merge_dest = <<report_profile_path(project_dir)>>
              /\ report_rows' = IF stops THEN <<>> ELSE <<rows>>
              /\ line_coverage_str' = IF stops THEN <<>> ELSE r.line_str
              /\ branch_coverage_str' = IF stops THEN <<>> ELSE r.branch_str
              /\ report' = IF stops THEN <<>> ELSE r.report
              /\ Finish("Reporter", st # "ok" \/ r.panic, stops \/ r.panic, "gate")
    /\ UNCHANGED <<project_dir, min_line_coverage, min_branch_coverage, root,
                   profdata_dir, profdata_before, reset_dir, merge_dest, merge_status, merge_inputs,
                   deleted, build_events, objects, message, coverage_str,
                   coverage_pct>>

\* main.rs:50-64
Gate ==
    /\ pc = "gate"
    /\ started' = Append(started, "Gate")
    /\ LET g == gate(report[1], min_line_coverage, min_branch_coverage)
       IN  /\ message' = <<[stream |-> g.stream, text |-> g.text, values |-> g.values]>>
           /\ exit_code' = <<g.exit>>
    /\ pc' = "exited"
    /\ UNCHANGED <<project_dir, min_line_coverage, min_branch_coverage, root,
                   profdata_dir, profdata_before, failed_stage, reset_dir, merge_dest, merge_status,
                   merge_inputs, deleted, report_profile, build_events, objects,
                   report_rows, line_coverage_str, branch_coverage_str, report,
                   coverage_str, coverage_pct>>

Next ==
    \/ RunTest
    \/ ClearProfdata
    \/ Merge
    \/ ClearProfraw
    \/ GetObjects(SampleStreams)
    \/ ExecuteReport(SampleStdouts)
    \/ Gate

Spec == Init /\ [][Next]_vars

(***************************************************************************)
(* Stage-level and function-level checks: one call, from a state the run   *)
(* reaches, over all inputs within the bounds.                             *)
(***************************************************************************)
\* a run in "." that has merged one fragment and is about to discover binaries
AtGetObjects ==
    /\ pc = "get_objects"
    /\ project_dir = Dot
    /\ min_line_coverage = DEFAULT_MIN_LINE_COVERAGE
    /\ min_branch_coverage = DEFAULT_MIN_BRANCH_COVERAGE
    /\ root = AlwaysEntries
    /\ profdata_dir = [kind |-> "dir", entries |-> {PROFDATA_FILE}]
    /\ profdata_before = <<AbsentDir>>
    /\ started = <<"Runner", "Merger">>
    /\ failed_stage = <<>>
    /\ reset_dir = <<clear_profdata_target(Dot)>>
    /\ merge_dest = <<merge_output_path(Dot)>>
    /\ merge_status = <<"ok">>
    /\ merge_inputs = {FragName(1)}
    /\ deleted = {FragName(1)}
    /\ report_profile = <<>>
    /\ build_events = <<>>
    /\ objects = <<>>
    /\ report_rows = <<>>
    /\ line_coverage_str = <<>>
    /\ branch_coverage_str = <<>>
    /\ report = <<>>
    /\ message = <<>>
    /\ exit_code = <<>>
    /\ coverage_str = <<>>
    /\ coverage_pct = <<>>

NextDiscover == GetObjects(Streams)

SpecDiscover == AtGetObjects /\ [][NextDiscover]_vars

\* the same run, having found one test binary, about to report
AtExecuteReport ==
    /\ pc = "execute_report"
    /\ project_dir = Dot
    /\ min_line_coverage = DEFAULT_MIN_LINE_COVERAGE
    /\ min_branch_coverage = DEFAULT_MIN_BRANCH_COVERAGE
    /\ root = AlwaysEntries
    /\ profdata_dir = [kind |-> "dir", entries |-> {PROFDATA_FILE}]
    /\ profdata_before = <<AbsentDir>>
    /\ started = <<"Runner", "Merger", "Discoverer">>
    /\ failed_stage = <<>>
    /\ reset_dir = <<clear_profdata_target(Dot)>>
    /\ merge_dest = <<merge_output_path(Dot)>>
    /\ merge_status = <<"ok">>
    /\ merge_inputs = {FragName(1)}
    /\ deleted = {FragName(1)}
    /\ report_profile = <<>>
    /\ build_events = <<<<[profile |-> "true", filenames |-> "a"],
                          [profile |-> "false", filenames |-> "b"]>>>>
    /\ objects = <<"/tmp/bin_a">>
    /\ report_rows = <<>>
    /\ line_coverage_str = <<>>
    /\ branch_coverage_str = <<>>
    /\ report = <<>>
    /\ message = <<>>
    /\ exit_code = <<>>
    /\ coverage_str = <<>>
    /\ coverage_pct = <<>>

NextReport == ExecuteReport(Stdouts)

SpecReport == AtExecuteReport /\ [][NextReport]_vars

\* main.rs:189-190: coverage_pct_from_str called on a token
InitPct ==
    /\ pc = "coverage_pct_from_str"
    /\ coverage_str \in Tokens
    /\ coverage_pct = <<>>
    /\ project_dir = Dot
    /\ min_line_coverage = DEFAULT_MIN_LINE_COVERAGE
    /\ min_branch_coverage = DEFAULT_MIN_BRANCH_COVERAGE
    /\ root = {}
    /\ profdata_dir = AbsentDir
    /\ profdata_before = <<>>
    /\ started = <<>>
    /\ failed_stage = <<>>
    /\ reset_dir = <<>>
    /\ merge_dest = <<>>
    /\ merge_status = <<>>
    /\ merge_inputs = {}
    /\ deleted = {}
    /\ report_profile = <<>>
    /\ build_events = <<>>
    /\ objects = <<>>
    /\ report_rows = <<>>
    /\ line_coverage_str = <<>>
    /\ branch_coverage_str = <<>>
    /\ report = <<>>
    /\ message = <<>>
    /\ exit_code = <<>>

CoveragePctFromStr ==
    /\ pc = "coverage_pct_from_str"
    /\ LET r == coverage_pct_from_str(coverage_str)
       IN  /\ coverage_pct' = <<r>>
           /\ pc' = IF r.panic THEN "panicked" ELSE "returned"
    /\ UNCHANGED <<project_dir, min_line_coverage, min_branch_coverage, root,
                   profdata_dir, profdata_before, started, failed_stage, reset_dir, merge_dest,
                   merge_status, merge_inputs, deleted, report_profile,
                   build_events, objects, report_rows, line_coverage_str,
                   branch_coverage_str, report, message, exit_code, coverage_str>>

NextPct == CoveragePctFromStr

SpecPct == InitPct /\ [][NextPct]_vars

(***************************************************************************)
(* Properties.                                                             *)
(***************************************************************************)
StageOrder == <<"Runner", "Merger", "Discoverer", "Reporter", "Gate">>
SuccessText == "SUCCESS - All coverage requirements met"
LineBelow == Lt(report[1].line_coverage, min_line_coverage)
BranchBelow == Lt(report[1].branch_coverage, min_branch_coverage)

\* C1: once a report exists only the Gate follows, and the run that has ended
\* after the Gate has exit code 1 exactly when the line coverage is below its
\* minimum or the branch coverage is below its minimum, and otherwise exit code
\* 0 with the success line printed; the condition is symmetric in the two
\* checks, so their order does not change the verdict.
C1_GateVerdict ==
    /\ report # <<>> => pc \in {"gate", "exited"}
    /\ pc = "gate" => report # <<>>
    /\ pc = "exited" =>
          /\ exit_code \in {<<0>>, <<1>>}
          /\ exit_code = <<1>> <=> (LineBelow \/ BranchBelow)
          /\ exit_code = <<0>> <=> (~BranchBelow /\ ~LineBelow)
          /\ exit_code = <<0>> <=> (message[1].text = SuccessText /\ message[1].stream = "stdout")

\* C1 witness: a run whose both values were below their minimums ended with 1
C1_Witness ==
    /\ pc = "exited"
    /\ LineBelow /\ BranchBelow
    /\ exit_code = <<1>>

\* C2: the stages start in the order Runner, Merger, Discoverer, Reporter,
\* Gate; once a stage has failed the run has panicked, the failed stage is the
\* last one started, there is no report, the Gate has printed nothing and the
\* exit code is neither 0 nor 1.
C2_AbortOnStageFailure ==
    /\ Len(started) <= Len(StageOrder)
    /\ started = SubSeq(StageOrder, 1, Len(started))
    /\ failed_stage # <<>> =>
          /\ pc = "panicked"
          /\ started # <<>>
          /\ started[Len(started)] = failed_stage[1]
          /\ failed_stage[1] # "Gate"
          /\ report = <<>>
          /\ message = <<>>
          /\ exit_code \notin {<<0>>, <<1>>}

\* C2 witness: the merge command exited non-zero and the run stopped there
C2_Witness ==
    /\ merge_status = <<"nonzero">>
    /\ failed_stage = <<"Merger">>
    /\ pc = "panicked"
    /\ started = <<"Runner", "Merger">>

\* the paths of the events whose profile.test is the boolean true, in order
RECURSIVE TestPaths(_)
TestPaths(evs) ==
    IF evs = <<>> THEN <<>>
    ELSE (IF Head(evs).profile = "true" THEN FilenamesPaths(Head(evs).filenames) ELSE <<>>)
             \o TestPaths(Tail(evs))

StringArrays == {"a", "b", "ab"}

\* C3: for a stream whose every line is a JSON object, get_objects returns
\* unless a test event's filenames is not an array of strings, and the
\* manifest it returns is the concatenation, in stream order, of the filenames
\* of the events whose profile.test is true; no other event stops it.
C3_BinaryDiscovery ==
    (build_events # <<>> /\ \A i \in 1..Len(build_events[1]) : build_events[1][i] # MalformedEvent)
    => /\ pc = "panicked" <=>
              \E i \in 1..Len(build_events[1]) :
                  /\ build_events[1][i].profile = "true"
                  /\ build_events[1][i].filenames \notin StringArrays
       /\ pc # "panicked" => objects = TestPaths(build_events[1])

\* C3 witness: an event whose test is not a boolean (and whose filenames is
\* malformed) was skipped and a test event gave its two paths
C3_Witness ==
    /\ build_events = <<<<[profile |-> "str_true", filenames |-> "a_num"],
                          [profile |-> "true", filenames |-> "ab"]>>>>
    /\ objects = <<"/tmp/bin_a", "/tmp/bin_b">>
    /\ pc = "execute_report"

MentionsTotal(row) == \E i \in 1..Len(row.fields) : row.fields[i] \in WordsWithTotal
IsDocumentedTotalRow(row) == Len(row.fields) = 10 /\ row.fields[1] = S_TOTAL
FirstDocumentedTotalRow(rows) ==
    CHOOSE i \in 1..Len(rows) :
        /\ IsDocumentedTotalRow(rows[i])
        /\ \A j \in 1..(i - 1) : ~IsDocumentedTotalRow(rows[j])

\* C4: when the stdout read holds a TOTAL row in the documented columns, the
\* tokens used are fields 6 and 9 of the first such row, whatever rows come
\* before or after it; when no row contains TOTAL the run panics and there is
\* no report.
C4_TotalRowExtraction ==
    report_rows # <<>> =>
        /\ (\E i \in 1..Len(report_rows[1]) : IsDocumentedTotalRow(report_rows[1][i]))
           => LET row == report_rows[1][FirstDocumentedTotalRow(report_rows[1])]
              IN  /\ line_coverage_str = <<row.fields[7]>>
                  /\ branch_coverage_str = <<row.fields[10]>>
        /\ (\A i \in 1..Len(report_rows[1]) : ~MentionsTotal(report_rows[1][i]))
           => pc = "panicked" /\ report = <<>>

\* the text before the first '%' of t
PctPrefix(t) ==
    SubSeq(t, 1, CHOOSE k \in 0..Len(t) :
                     /\ \A j \in 1..k : t[j] # "%"
                     /\ k = Len(t) \/ t[k + 1] = "%")
Unsigned(p) == IF p # <<>> /\ p[1] \in {"-", "+"} THEN Tail(p) ELSE p
\* p is a decimal number: a sign or none, digits, at most one '.'
IsDecimalNumber(p) ==
    /\ \A i \in 1..Len(Unsigned(p)) : Unsigned(p)[i] \in Digits \cup {"."}
    /\ Cardinality({i \in 1..Len(Unsigned(p)) : Unsigned(p)[i] = "."}) <= 1
    /\ \E i \in 1..Len(Unsigned(p)) : Unsigned(p)[i] \in Digits
RECURSIVE Pow10(_)
Pow10(n) == IF n = 0 THEN 1 ELSE 10 * Pow10(n - 1)
RECURSIVE SumOver(_, _)
SumOver(S, w) ==
    IF S = {} THEN 0 ELSE LET x == CHOOSE y \in S : TRUE IN w[x] + SumOver(S \ {x}, w)
\* the value of a decimal number: each digit weighs ten to the number of
\* digits after it, over ten to the number of digits after the '.'
DecimalValue(p) ==
    LET u == Unsigned(p)
        ds == {i \in 1..Len(u) : u[i] \in Digits}
        after(i) == Cardinality({j \in ds : j > i})
        frac == Cardinality({i \in ds : \E d \in 1..(i - 1) : u[d] = "."})
        mag == SumOver(ds, [i \in ds |-> DigitVal(u[i]) * Pow10(after(i))])
    IN  <<IF p[1] = "-" THEN -mag ELSE mag, Pow10(frac)>>
\* what parse::<f32> accepts, over the alphabets of the model
IsF32Literal(p) == IsDecimalNumber(p) \/ Unsigned(p) \in {S_nan, S_inf, S_infinity}
\* t is X% for a number X
IsPctToken(t) ==
    /\ Len(t) >= 2
    /\ t[Len(t)] = "%"
    /\ IsDecimalNumber(SubSeq(t, 1, Len(t) - 1))
PctNumber(t) == DecimalValue(SubSeq(t, 1, Len(t) - 1))
Hundred == <<100, 1>>
InUnit(v) == Leq(Zero, v) /\ Leq(v, One)

MatchesDefaultStarProfraw(name) ==
    \E k \in 0..Len(name) :
        /\ Len(name) = Len(S_default) + k + Len(S_profraw)
        /\ name = S_default \o SubSeq(name, Len(S_default) + 1, Len(S_default) + k) \o S_profraw
GenerateProfdataReturned == pc = "get_objects" \/ Len(started) >= 3

\* C6: when generate_profdata has returned, the project root holds no regular
\* file whose name matches default*.profraw.
C6_FragmentRoundTrip ==
    GenerateProfdataReturned =>
        \A e \in root : ~(e.kind = "file" /\ MatchesDefaultStarProfraw(e.name))

\* C6 witness: generate_profdata returned after a run that left every fragment
\* the bound allows, beside stale files matching the pattern
C6_Witness ==
    /\ pc = "get_objects"
    /\ merge_status = <<"ok">>
    /\ {FragName(i) : i \in 1..MaxFragments} \subseteq deleted
    /\ N_default_profraw \in deleted
    /\ N_default_9_profraw \in deleted

\* C7: a Gate that failed a check printed the observed value and the minimum
\* of that check.
C7_FailureMessage ==
    (pc = "exited" /\ exit_code = <<1>>) =>
        \/ /\ message[1].text = "Line coverage requirement not met"
           /\ LineBelow
           /\ message[1].values = <<report[1].line_coverage, min_line_coverage>>
        \/ /\ message[1].text = "Branch coverage requirement not met"
           /\ BranchBelow
           /\ message[1].values = <<report[1].branch_coverage, min_branch_coverage>>

\* C8: when clear_profdata has returned, .profdata is an existing empty
\* directory whatever it was before, a second clear_profdata would return with
\* the same state, and no merged profile is in it as the merge starts.
C8_ArtifactReset ==
    pc = "merge" =>
        /\ profdata_dir.kind = "dir"
        /\ profdata_dir.entries = {}
        /\ clear_profdata(profdata_dir, "ok") = [panic |-> FALSE, dir |-> profdata_dir]

\* C8 witness: clear_profdata returned having found a stale merged profile
C8_Witness ==
    /\ pc = "merge"
    /\ profdata_before # <<>>
    /\ PROFDATA_FILE \in profdata_before[1].entries
    /\ profdata_dir = EmptyDir

\* C9: every file the purge removed was an input of the merge command, and
\* nothing is removed unless the merge exited successfully.
C9_OnlyMergedFragmentsDeleted ==
    /\ deleted \subseteq merge_inputs
    /\ deleted # {} => merge_status = <<"ok">>

\* C10: the directory clear_profdata reset, the file the merge command was
\* told to write and the file rust-cov was told to read are one location,
\* <project root>/.profdata/unittest.profdata.
C10_OneMergedProfileLocation ==
    /\ reset_dir # <<>> => reset_dir[1] = ChildCwd(project_dir) \o <<".profdata">>
    /\ merge_dest # <<>> => merge_dest[1] = reset_dir[1] \o <<PROFDATA_FILE>>
    /\ report_profile # <<>> => report_profile = merge_dest

====
